---- MODULE Spec2Model ----
(***************************************************************************)
(* HTTP service for users, advertisements and bearer tokens                *)
(* (src/main.py, src/models.py).                                           *)
(*                                                                         *)
(* The store is the three tables of models.py.  Every request runs in its  *)
(* own session (session_middleware); a handler is a sequence of steps, one *)
(* per database round trip, each step holding the round trip and the local *)
(* code that follows it up to the next round trip.  A commit (flush and    *)
(* COMMIT of one transaction) is one step.  Steps of different requests    *)
(* interleave freely.  created_at columns hold server time and are not     *)
(* modelled.                                                               *)
(*                                                                         *)
(* Database behaviour is that of PostgreSQL at READ COMMITTED under         *)
(* SQLAlchemy's unit of work: sequences are not rolled back, a foreign key  *)
(* column without nullable=False accepts NULL, and deleting a parent row    *)
(* whose relationship has no delete cascade sets the children's foreign key *)
(* to NULL.  pydantic is taken at version 1 (Optional fields default to     *)
(* None, unknown keys are ignored, validators are skipped for None).        *)
(*                                                                         *)
(* Spec runs requests concurrently on representative inputs; SeqSpec runs   *)
(* one request at a time on every combination of input values.              *)
(***************************************************************************)
EXTENDS Integers, Sequences, FiniteSets, TLC

\* ------------------------------------------------------------------ bounds
\* ids the users_id_seq sequence may hand out
MaxUsers == 2
\* ids the advertisements_id_seq sequence may hand out
MaxAds == 1
\* requests in flight at the same time
NumProcs == 2

Procs == 1..NumProcs

\* --------------------------------------------------------------- constants
\* Python None / SQL NULL in an integer column (real ids start at 1)
None == 0
\* request.headers has no 'token' key
NoHeader == -2
\* the 'token' header is not the text of a UUID
BadUuid == -1

HTTP_OK == 200
HTTP_BAD_REQUEST == 400
HTTP_UNAUTHORIZED == 401
HTTP_NOT_FOUND == 404
HTTP_SERVER_ERROR == 500

MinPassword == 5
MinTitle == 8
MinDescription == 5
MaxTitle == 100

\* ------------------------------------------------------------ input values
Emails == {"a@x.com", "b@x.com"}
Passwords == {"abcd", "abcde"}
Titles == {"short", "Long enough title", "Updated title!!"}
Descriptions == {"shrt", "short", "longer text"}
Salts == {"$2b$12$salt"}

\* path parameters: the ids a sequence can have handed out, and one more
UserIdParams == 1..(MaxUsers + 1)
AdvIdParams == 1..(MaxAds + 1)
\* a token is issued per committed user; MaxUsers + 1 is a UUID never issued
TokenIds == 1..MaxUsers
TokenHeaders == {NoHeader, BadUuid} \cup TokenIds \cup {MaxUsers + 1}

\* JSON objects: functions whose domain is the set of keys present
Values(key) ==
    CASE key = "email" -> Emails
      [] key = "password" -> Passwords
      [] key = "title" -> Titles
      [] key = "description" -> Descriptions
      [] key = "user_id" -> {"2"}

Dicts(keys) ==
    UNION { { d \in [K -> UNION { Values(k) : k \in K }] :
                \A k \in K : d[k] \in Values(k) } : K \in SUBSET keys }

UserBodies == Dicts({"email", "password"})
AdvBodies == Dicts({"title", "description", "user_id"})

\* representative inputs of the concurrent specification
ConcUserBodies == [{"email", "password"} -> Emails \cup Passwords] \cap UserBodies
ConcPostBodies ==
    { [title |-> "Long enough title", description |-> "short"],
      [title |-> "Long enough title", description |-> "short", user_id |-> "2"],
      [title |-> "short", description |-> "short"] }
ConcPatchBodies ==
    { [title |-> "Updated title!!"],
      [description |-> "longer text"],
      [title |-> "Updated title!!", user_id |-> "2"],
      [description |-> "shrt"] }
ConcHeaders == {NoHeader} \cup TokenIds

VARIABLES
    users,          \* table users: id -> [email, password]
    advertisements, \* table advertisements: id -> [title, description, user_id]
    tokens,         \* table tokens: id -> [user_id]
    nextUserId,     \* users_id_seq
    nextAdvId,      \* advertisements_id_seq
    nextTokenId,    \* the next fresh uuid4
    pc,             \* per request slot: the handler's position
    local,          \* per request slot: the handler's local variables
    response,       \* the response sent by the last step, or NoResponse
    tokenIssuedTo,  \* history: token id -> user it was created for
    advCreator,     \* history: advertisement id -> user_id it was created with
    sessions        \* the request slots whose database session is open

store == <<users, advertisements, tokens>>
seqs == <<nextUserId, nextAdvId, nextTokenId>>
history == <<tokenIssuedTo, advCreator>>
vars == <<users, advertisements, tokens, nextUserId, nextAdvId, nextTokenId,
          pc, local, response, tokenIssuedTo, advCreator, sessions>>

NoLocal == [none |-> TRUE]
NoResponse == [op |-> "none"]
Empty == [x \in {} |-> None]

Init ==
    /\ users = Empty
    /\ advertisements = Empty
    /\ tokens = Empty
    /\ nextUserId = 1
    /\ nextAdvId = 1
    /\ nextTokenId = 1
    /\ pc = [p \in Procs |-> "idle"]
    /\ local = [p \in Procs |-> NoLocal]
    /\ response = NoResponse
    /\ tokenIssuedTo = Empty
    /\ advCreator = Empty
    /\ sessions = {}

\* ---------------------------------------------------------------- helpers
\* session.get(table_name, item_id): the row, looked up in the committed table
get_item_by_id(item_id, table) ==
    IF item_id \in DOMAIN table
    THEN [found |-> TRUE, item |-> table[item_id]]
    ELSE [found |-> FALSE]

\* check_len with the bound off by one
check_len_off_by_one(value, min_value) == ~(Len(value) < min_value - 1)

\* TRUE when check_len returns, FALSE when it raises HTTPBadRequest
check_len(value, min_value) == ~(Len(value) < min_value)

\* the fields of a pydantic model, in declaration order
Fields(validation_model) ==
    IF validation_model = "CreateUser"
    THEN <<"email", "password">>
    ELSE <<"title", "description">>

\* a field without default is required; Optional[...] fields default to None
Required(validation_model) == validation_model # "UpdateAdvertisement"

\* the minimum a field's validator hands to check_len (0: no validator)
MinLen(field) ==
    CASE field = "password" -> MinPassword
      [] field = "title" -> MinTitle
      [] field = "description" -> MinDescription
      [] OTHER -> 0

TooShort(field) ==
    CASE field = "password" -> "password is too short, min_lenght = 5"
      [] field = "title" -> "title is too short, min_lenght = 8"
      [] field = "description" -> "description is too short, min_lenght = 5"
      [] OTHER -> ""

\* validate(): the model's dict with None fields left out, or a 400.  Keys the
\* model does not declare are ignored.  A validator that raises HTTPBadRequest
\* ends validation at once; a missing required field is a ValidationError.
validate(input_data, validation_model) ==
    LET fs == Fields(validation_model)
        short(i) == /\ fs[i] \in DOMAIN input_data
                    /\ ~check_len(input_data[fs[i]], MinLen(fs[i]))
        missing(i) == Required(validation_model) /\ fs[i] \notin DOMAIN input_data
        present == { fs[i] : i \in { j \in DOMAIN fs : fs[j] \in DOMAIN input_data } }
    IN  IF \E i \in DOMAIN fs : short(i)
        THEN [ok |-> FALSE,
              error |-> TooShort(fs[CHOOSE i \in DOMAIN fs :
                                      short(i) /\ \A j \in 1..(i - 1) : ~short(j)])]
        ELSE IF \E i \in DOMAIN fs : missing(i)
        THEN [ok |-> FALSE, error |-> "incorrect input_data!"]
        ELSE [ok |-> TRUE, data |-> [f \in present |-> input_data[f]]]

\* bcrypt.hashpw(password, salt): never the plaintext
hashpw(password, salt) == <<"bcrypt", salt, password>>

\* users.email without unique=True
EmailTaken_no_index(email) == FALSE

\* the unique index on users.email
EmailTaken(email) == \E u \in DOMAIN users : users[u].email = email

\* rows of a table whose user_id column is user_id
RowsOf(table, user_id) == { r \in DOMAIN table : table[r].user_id = user_id }

\* a foreign key to users.id accepts NULL or the id of an existing row
FkOk(user_id) == user_id = None \/ user_id \in DOMAIN users

\* a delete that is never flushed
Remove_nothing(table, ids) == table

Remove(table, ids) == [r \in DOMAIN table \ ids |-> table[r]]

\* str(user.advs): the reprs of the joined advertisements, by id
RECURSIVE ReprList(_, _)
ReprList(table, ids) ==
    IF ids = {} THEN <<>>
    ELSE LET m == CHOOSE a \in ids : \A b \in ids : a <= b
         IN  <<table[m].title>> \o ReprList(table, ids \ {m})

Respond(op, req, status, body) ==
    response' = [op |-> op, req |-> req, status |-> status, body |-> body]

Error(text) == [ERROR |-> text]
\* the body get_item_by_id raises HTTPNotFound with (its text has a grave
\* accent where this string has an apostrophe)
NotFound == Error("item doesn't exist")
\* (the two Russian error texts of main.py are given in English)
\* an exception no handler catches: aiohttp answers 500
Unhandled(exception) == [exception |-> exception]

\* A step is taken once the response of the step before it has been sent: no
\* step reads response, so this orders the observation and nothing else.
Sent == response = NoResponse
Idle(p) == Sent /\ pc[p] = "idle"
At(p, label) == Sent /\ pc[p] = label
\* the handler stops at an await inside "async with Session() as session"
Goto(p, label, loc) ==
    /\ pc' = [pc EXCEPT ![p] = label]
    /\ local' = [local EXCEPT ![p] = loc]
    /\ sessions' = sessions \cup {p}

\* a middleware that opens the session without a context manager
Return_leak(p) ==
    /\ pc' = [pc EXCEPT ![p] = "idle"]
    /\ local' = [local EXCEPT ![p] = NoLocal]
    /\ sessions' = sessions

\* the handler returns or raises: the response leaves through the exit of
\* "async with", which closes the session.  (A request answered in the step
\* it arrived with opens and closes its session within that step.)
Return(p) ==
    /\ pc' = [pc EXCEPT ![p] = "idle"]
    /\ local' = [local EXCEPT ![p] = NoLocal]
    /\ sessions' = sessions \ {p}

\* ---------------------------------------------------------------- GET /
get_hello(p) ==
    /\ Idle(p)
    /\ Respond("get_hello", NoLocal, HTTP_OK, [status |-> "OKS"])
    /\ UNCHANGED <<store, seqs, history, pc, local, sessions>>

\* ------------------------------------------------------------- UserView
\* GET /users/{user_id}/
UserView_get(p, user_id) ==
    /\ Idle(p)
    /\   LET got == get_item_by_id(user_id, users)
             req == [user_id |-> user_id]
         IN  IF ~got.found
             THEN Respond("user_get", req, HTTP_NOT_FOUND, NotFound)
             ELSE Respond("user_get", req, HTTP_OK,
                          [user_id |-> user_id, user_email |-> got.item.email,
                           advs |-> ReprList(advertisements,
                                             RowsOf(advertisements, user_id))])
    /\ UNCHANGED <<store, seqs, history, pc, local, sessions>>

\* a token row that is not bound to the new user
NewToken_unbound(new_user_id) == [user_id |-> None]

\* The token row UserView.post builds for the user it has just committed
NewToken(new_user_id) == [user_id |-> new_user_id]

\* POST /users/ up to and including the first commit (the users row)
UserView_post(p, json_data, salt) ==
    /\ Idle(p)
    /\   LET v == validate(json_data, "CreateUser")
             req == [body |-> json_data]
         IN  IF ~v.ok
             THEN /\ Respond("user_post", req, HTTP_BAD_REQUEST, Error(v.error))
                  /\ UNCHANGED <<users, nextUserId, pc, local, sessions>>
             ELSE /\ nextUserId <= MaxUsers
                  /\ nextUserId' = nextUserId + 1
                  /\ IF EmailTaken(v.data["email"])
                     THEN \* IntegrityError on the unique index
                          /\ Respond("user_post", req, HTTP_BAD_REQUEST,
                                     Error("user is already exists"))
                          /\ UNCHANGED <<users, pc, local, sessions>>
                     ELSE /\ users' = users @@ (nextUserId :>
                                 [email |-> v.data["email"],
                                  password |-> hashpw(v.data["password"], salt)])
                          /\ Goto(p, "user_post_token",
                                  [json_data |-> json_data, new_user |-> nextUserId])
                          /\ response' = NoResponse
    /\ UNCHANGED <<advertisements, tokens, nextAdvId, nextTokenId, history>>

\* POST /users/: the second commit (the tokens row) and the response
UserView_post_token(p) ==
    /\ At(p, "user_post_token")
    /\ LET new_user == local[p].new_user
           user_token == NewToken(new_user)
           req == [body |-> local[p].json_data]
       IN  IF ~FkOk(user_token.user_id)
           THEN \* IntegrityError on tokens.user_id, not caught
                /\ Respond("user_post", req, HTTP_SERVER_ERROR, Unhandled("IntegrityError"))
                /\ UNCHANGED <<tokens, nextTokenId, tokenIssuedTo>>
           ELSE /\ tokens' = tokens @@ (nextTokenId :> user_token)
                /\ nextTokenId' = nextTokenId + 1
                /\ tokenIssuedTo' = tokenIssuedTo @@ (nextTokenId :> new_user)
                /\ Respond("user_post", req, HTTP_OK,
                           [user_created |-> new_user, token |-> nextTokenId])
    /\ Return(p)
    /\ UNCHANGED <<users, advertisements, nextUserId, nextAdvId, advCreator>>

\* DELETE /users/{user_id}/ up to the commit: the user and, joined, its advs
UserView_delete(p, user_id) ==
    /\ Idle(p)
    /\   LET got == get_item_by_id(user_id, users)
             req == [user_id |-> user_id]
         IN  IF ~got.found
             THEN /\ Respond("user_delete", req, HTTP_NOT_FOUND, NotFound)
                  /\ UNCHANGED <<pc, local, sessions>>
             ELSE /\ Goto(p, "user_delete_commit",
                          [user_id |-> user_id, email |-> got.item.email,
                           advs |-> RowsOf(advertisements, user_id)])
                  /\ response' = NoResponse
    /\ UNCHANGED <<store, seqs, history>>

\* What a flush may do when an UPDATE by primary key matches fewer rows than
\* expected: one statement raises StaleDataError; a batch of several runs as
\* executemany, whose row count the driver may not report.
StaleOutcomes(expected, matched) ==
    IF matched = expected THEN {"ok"}
    ELSE IF Cardinality(expected) = 1 THEN {"stale"}
    ELSE {"stale", "ok"}

\* DELETE /users/{user_id}/: the commit.  The flush sets user_id to NULL in
\* the advertisements loaded with the user and in the tokens it loads now
\* (relationships without delete cascade), then deletes the users row.
UserView_delete_commit(p) ==
    /\ At(p, "user_delete_commit")
    /\ LET user_id == local[p].user_id
           req == [user_id |-> user_id]
           advs == local[p].advs
           toks == RowsOf(tokens, user_id)
           live == advs \cap DOMAIN advertisements
           advs1 == [a \in DOMAIN advertisements |->
                       IF a \in live
                       THEN [advertisements[a] EXCEPT !.user_id = None]
                       ELSE advertisements[a]]
           tokens1 == [t \in DOMAIN tokens |->
                       IF t \in toks
                       THEN [tokens[t] EXCEPT !.user_id = None]
                       ELSE tokens[t]]
       IN  \E outcome \in StaleOutcomes(advs, live) :
             IF outcome = "stale"
             THEN /\ Respond("user_delete", req, HTTP_SERVER_ERROR, Unhandled("StaleDataError"))
                  /\ UNCHANGED store
             ELSE IF user_id \in DOMAIN users /\ RowsOf(advs1, user_id) # {}
             THEN \* an advertisement created since the user was loaded
                  /\ Respond("user_delete", req, HTTP_SERVER_ERROR, Unhandled("IntegrityError"))
                  /\ UNCHANGED store
             ELSE /\ users' = Remove(users, {user_id})
                  /\ advertisements' = advs1
                  /\ tokens' = tokens1
                  /\ Respond("user_delete", req, HTTP_OK,
                             [status_OK |-> <<"user", local[p].email, "deleted">>])
    /\ Return(p)
    /\ UNCHANGED <<seqs, history>>

\* --------------------------------------------------- token of the request
\* session.get(Token, request.headers['token']): what the lookup ends with,
\* for a header that is present
TokenLookup(token_in_request) ==
    IF token_in_request = BadUuid
    THEN [status |-> HTTP_SERVER_ERROR, body |-> Unhandled("StatementError")]
    ELSE IF ~get_item_by_id(token_in_request, tokens).found
    THEN [status |-> HTTP_NOT_FOUND, body |-> NotFound]
    ELSE [status |-> HTTP_OK, token_owner |-> tokens[token_in_request]]

\* an owner check that lets every known token through
OwnerMatches_any(advertisement, token_owner) == TRUE

\* the comparison check_token_in_headers makes
OwnerMatches(advertisement, token_owner) ==
    advertisement.user_id = token_owner.user_id

\* check_token_in_headers, from the header on: HTTP_OK when it returns True
check_token_in_headers(advertisement, token_in_request) ==
    LET looked == TokenLookup(token_in_request)
    IN  IF looked.status # HTTP_OK
        THEN looked
        ELSE IF OwnerMatches(advertisement, looked.token_owner)
        THEN [status |-> HTTP_OK]
        ELSE [status |-> HTTP_UNAUTHORIZED,
              body |-> Error("only the owner may do this")]

\* ------------------------------------------------------ AdvertisementView
\* GET /advertisements/{adv_id}/
AdvertisementView_get(p, adv_id) ==
    /\ Idle(p)
    /\   LET got == get_item_by_id(adv_id, advertisements)
             req == [adv_id |-> adv_id]
         IN  IF ~got.found
             THEN Respond("adv_get", req, HTTP_NOT_FOUND, NotFound)
             ELSE Respond("adv_get", req, HTTP_OK,
                          [adv_id |-> adv_id, title |-> got.item.title,
                           description |-> got.item.description,
                           created_by |-> got.item.user_id])
    /\ UNCHANGED <<store, seqs, history, pc, local, sessions>>

\* a row whose description is taken from the title
NewAdvertisement_mixed(validated_data, token_owner) ==
    [title |-> validated_data["title"],
     description |-> validated_data["title"],
     user_id |-> token_owner.user_id]

\* the row AdvertisementView.post builds from the validated data and the
\* token's owner
NewAdvertisement(validated_data, token_owner) ==
    [title |-> validated_data["title"],
     description |-> validated_data["description"],
     user_id |-> token_owner.user_id]

\* POST /advertisements/ up to the commit: validation, then the token
AdvertisementView_post(p, input_data, token_in_request) ==
    /\ Idle(p)
    /\   LET v == validate(input_data, "CreateAdvertisement")
             looked == TokenLookup(token_in_request)
             req == [token |-> token_in_request, body |-> input_data]
         IN  IF ~v.ok
             THEN /\ Respond("adv_post", req, HTTP_BAD_REQUEST, Error(v.error))
                  /\ UNCHANGED <<pc, local, sessions>>
             ELSE IF token_in_request = NoHeader
             THEN /\ Respond("adv_post", req, HTTP_SERVER_ERROR, Unhandled("KeyError"))
                  /\ UNCHANGED <<pc, local, sessions>>
             ELSE IF looked.status # HTTP_OK
             THEN /\ Respond("adv_post", req, looked.status, looked.body)
                  /\ UNCHANGED <<pc, local, sessions>>
             ELSE /\ Goto(p, "adv_post_commit",
                          [req |-> req,
                           new_advertisement |->
                               NewAdvertisement(v.data, looked.token_owner)])
                  /\ response' = NoResponse
    /\ UNCHANGED <<store, seqs, history>>

\* POST /advertisements/: the commit (the advertisements row) and the response
AdvertisementView_post_commit(p) ==
    /\ At(p, "adv_post_commit")
    /\ nextAdvId <= MaxAds
    /\ LET new_advertisement == local[p].new_advertisement
           req == local[p].req
       IN  /\ nextAdvId' = nextAdvId + 1
           /\ IF Len(new_advertisement.title) > MaxTitle
              THEN \* value too long for type character varying(100)
                   /\ Respond("adv_post", req, HTTP_SERVER_ERROR, Unhandled("DBAPIError"))
                   /\ UNCHANGED <<advertisements, advCreator>>
              ELSE IF ~FkOk(new_advertisement.user_id)
              THEN \* IntegrityError; the handler reads input_data["user_id"]
                   /\ IF "user_id" \in DOMAIN req.body
                      THEN Respond("adv_post", req, HTTP_BAD_REQUEST,
                                   Error(<<"user", req.body["user_id"], "doesn't exist">>))
                      ELSE Respond("adv_post", req, HTTP_SERVER_ERROR, Unhandled("KeyError"))
                   /\ UNCHANGED <<advertisements, advCreator>>
              ELSE /\ advertisements' = advertisements @@ (nextAdvId :> new_advertisement)
                   /\ advCreator' = advCreator @@ (nextAdvId :> new_advertisement.user_id)
                   /\ Respond("adv_post", req, HTTP_OK,
                              [id |-> nextAdvId, title |-> new_advertisement.title,
                               user_id |-> new_advertisement.user_id])
    /\ Return(p)
    /\ UNCHANGED <<users, tokens, nextUserId, nextTokenId, tokenIssuedTo>>

\* PATCH without the user_id check
ChangesOwner_unchecked(input_data) == FALSE

\* PATCH: the request is refused when its body names user_id
ChangesOwner(input_data) == "user_id" \in DOMAIN input_data

\* PATCH /advertisements/{adv_id}/ up to the token lookup
AdvertisementView_patch(p, adv_id, input_data, token_in_request) ==
    /\ Idle(p)
    /\   LET v == validate(input_data, "UpdateAdvertisement")
             got == get_item_by_id(adv_id, advertisements)
             req == [adv_id |-> adv_id, token |-> token_in_request, body |-> input_data]
         IN  IF ChangesOwner(input_data)
             THEN /\ Respond("adv_patch", req, HTTP_BAD_REQUEST,
                             Error("the owner of an advertisement cannot be changed"))
                  /\ UNCHANGED <<pc, local, sessions>>
             ELSE IF ~v.ok
             THEN /\ Respond("adv_patch", req, HTTP_BAD_REQUEST, Error(v.error))
                  /\ UNCHANGED <<pc, local, sessions>>
             ELSE IF ~got.found
             THEN /\ Respond("adv_patch", req, HTTP_NOT_FOUND, NotFound)
                  /\ UNCHANGED <<pc, local, sessions>>
             ELSE IF token_in_request = NoHeader
             THEN /\ Respond("adv_patch", req, HTTP_SERVER_ERROR, Unhandled("KeyError"))
                  /\ UNCHANGED <<pc, local, sessions>>
             ELSE /\ Goto(p, "adv_patch_token",
                          [req |-> req, adv |-> got.item, validated_data |-> v.data])
                  /\ response' = NoResponse
    /\ UNCHANGED <<store, seqs, history>>

\* PATCH: the owner check, then setattr of every validated field
AdvertisementView_patch_token(p) ==
    /\ At(p, "adv_patch_token")
    /\ LET req == local[p].req
           checked == check_token_in_headers(local[p].adv, req.token)
       IN  IF checked.status # HTTP_OK
           THEN /\ Respond("adv_patch", req, checked.status, checked.body)
                /\ Return(p)
           ELSE /\ Goto(p, "adv_patch_commit", local[p])
                /\ response' = NoResponse
    /\ UNCHANGED <<store, seqs, history>>

\* the columns the flush writes: the attributes setattr gave a new value
Changed(adv, validated_data) ==
    { f \in DOMAIN validated_data : validated_data[f] # adv[f] }

\* a flush that writes every column of the loaded object back
Written_whole_row(adv, validated_data) ==
    [f \in {"title", "description"} |->
        IF f \in DOMAIN validated_data THEN validated_data[f] ELSE adv[f]]

\* the SET clause of the flush: the changed columns and their new values
Written(adv, validated_data) ==
    [f \in Changed(adv, validated_data) |-> validated_data[f]]

\* an UPDATE that clears the columns it was given no value for
Updated_clearing(row, validated_data, changed) ==
    [f \in DOMAIN row |-> IF f \in changed THEN validated_data[f]
                          ELSE IF f = "user_id" THEN row[f] ELSE ""]

\* the row after UPDATE ... SET <changed columns> WHERE id = adv_id
Updated(row, validated_data, changed) ==
    [f \in DOMAIN row |-> IF f \in changed THEN validated_data[f] ELSE row[f]]

\* PATCH: the commit and the response
AdvertisementView_patch_commit(p) ==
    /\ At(p, "adv_patch_commit")
    /\ LET req == local[p].req
           adv_id == req.adv_id
           validated_data == local[p].validated_data
           written == Written(local[p].adv, validated_data)
           changed == DOMAIN written
       IN  IF changed = {}
           THEN \* nothing to flush
                /\ Respond("adv_patch", req, HTTP_OK,
                           [id |-> adv_id, new_data |-> req.body])
                /\ UNCHANGED advertisements
           ELSE IF adv_id \notin DOMAIN advertisements
           THEN \* UPDATE matched no row
                /\ Respond("adv_patch", req, HTTP_SERVER_ERROR, Unhandled("StaleDataError"))
                /\ UNCHANGED advertisements
           ELSE IF "title" \in changed /\ Len(written["title"]) > MaxTitle
           THEN /\ Respond("adv_patch", req, HTTP_SERVER_ERROR, Unhandled("DBAPIError"))
                /\ UNCHANGED advertisements
           ELSE /\ advertisements' = [advertisements EXCEPT ![adv_id] =
                                         Updated(@, written, changed)]
                /\ Respond("adv_patch", req, HTTP_OK,
                           [id |-> adv_id, new_data |-> req.body])
    /\ Return(p)
    /\ UNCHANGED <<users, tokens, seqs, history>>

\* DELETE /advertisements/{adv_id}/ up to the token lookup
AdvertisementView_delete(p, adv_id, token_in_request) ==
    /\ Idle(p)
    /\   LET got == get_item_by_id(adv_id, advertisements)
             req == [adv_id |-> adv_id, token |-> token_in_request]
         IN  IF ~got.found
             THEN /\ Respond("adv_delete", req, HTTP_NOT_FOUND, NotFound)
                  /\ UNCHANGED <<pc, local, sessions>>
             ELSE IF token_in_request = NoHeader
             THEN /\ Respond("adv_delete", req, HTTP_SERVER_ERROR, Unhandled("KeyError"))
                  /\ UNCHANGED <<pc, local, sessions>>
             ELSE /\ Goto(p, "adv_delete_token", [req |-> req, adv |-> got.item])
                  /\ response' = NoResponse
    /\ UNCHANGED <<store, seqs, history>>

\* DELETE: the owner check, then session.delete(adv)
AdvertisementView_delete_token(p) ==
    /\ At(p, "adv_delete_token")
    /\ LET req == local[p].req
           checked == check_token_in_headers(local[p].adv, req.token)
       IN  IF checked.status # HTTP_OK
           THEN /\ Respond("adv_delete", req, checked.status, checked.body)
                /\ Return(p)
           ELSE /\ Goto(p, "adv_delete_commit", local[p])
                /\ response' = NoResponse
    /\ UNCHANGED <<store, seqs, history>>

\* DELETE: the commit and the response (a DELETE that matches no row only
\* warns)
AdvertisementView_delete_commit(p) ==
    /\ At(p, "adv_delete_commit")
    /\ LET req == local[p].req
       IN  /\ advertisements' = Remove(advertisements, {req.adv_id})
           /\ Respond("adv_delete", req, HTTP_OK,
                      [id |-> req.adv_id, title |-> local[p].adv.title])
    /\ Return(p)
    /\ UNCHANGED <<users, tokens, seqs, history>>

\* the response of the last step goes out to the client
Deliver ==
    /\ ~Sent
    /\ response' = NoResponse
    /\ UNCHANGED <<store, seqs, history, pc, local, sessions>>

\* ------------------------------------------------------------ the service
\* a request arrives (the routes of get_app) and runs to its first await on
\* the database
Request(p, userBodies, postBodies, patchBodies, headers) ==
    \/ get_hello(p)
    \/ \E user_id \in UserIdParams : UserView_get(p, user_id)
    \/ \E json_data \in userBodies, salt \in Salts : UserView_post(p, json_data, salt)
    \/ \E user_id \in UserIdParams : UserView_delete(p, user_id)
    \/ \E adv_id \in AdvIdParams : AdvertisementView_get(p, adv_id)
    \/ \E input_data \in postBodies, token_in_request \in headers :
         AdvertisementView_post(p, input_data, token_in_request)
    \/ \E adv_id \in AdvIdParams, input_data \in patchBodies, token_in_request \in headers :
         AdvertisementView_patch(p, adv_id, input_data, token_in_request)
    \/ \E adv_id \in AdvIdParams, token_in_request \in headers :
         AdvertisementView_delete(p, adv_id, token_in_request)

\* a request in flight goes on from an await
Continue(p) ==
    \/ UserView_post_token(p)
    \/ UserView_delete_commit(p)
    \/ AdvertisementView_post_commit(p)
    \/ AdvertisementView_patch_token(p)
    \/ AdvertisementView_patch_commit(p)
    \/ AdvertisementView_delete_token(p)
    \/ AdvertisementView_delete_commit(p)

\* Concurrent requests, their inputs drawn from representative values
Next ==
    \/ \E p \in Procs :
         \/ Request(p, ConcUserBodies, ConcPostBodies, ConcPatchBodies, ConcHeaders)
         \/ Continue(p)
    \/ Deliver

Spec == Init /\ [][Next]_vars

\* One request at a time, its inputs drawn from every combination of values
SeqNext ==
    \/ Request(1, UserBodies, AdvBodies, AdvBodies, TokenHeaders)
    \/ Continue(1)
    \/ Deliver

SeqSpec == Init /\ [][SeqNext]_vars

\* ================================================================ claims
Answered == response' # NoResponse
\* the step answers a request in the step it arrived with
AnsweredAtOnce == Answered /\ pc' = pc
InFlight(p, labels) == pc'[p] \in labels

\* C1: registration is atomic over its two inserts: in every committed
\* state of the store every users row has a tokens row bound to it.
C1_RegistrationAtomic ==
    \A u \in DOMAIN users : \E t \in DOMAIN tokens : tokens[t].user_id = u

\* C2: a successful POST /users/ adds exactly one users row (its first
\* commit) and exactly one tokens row (its second commit), and the token id
\* of the response resolves to a token whose user_id is the new user's id.
C2_RegistrationCreatesUserAndToken ==
    [][\A p \in Procs :
        /\ (pc[p] = "idle" /\ pc'[p] = "user_post_token") =>
              LET u == local'[p].new_user
              IN  /\ u \notin DOMAIN users
                  /\ DOMAIN users' = DOMAIN users \cup {u}
                  /\ \A x \in DOMAIN users : users'[x] = users[x]
                  /\ users'[u].email = local'[p].json_data["email"]
                  /\ tokens' = tokens
        /\ (pc[p] = "user_post_token" /\ pc'[p] = "idle"
                /\ response'.status = HTTP_OK) =>
              LET u == local[p].new_user
                  t == response'.body.token
              IN  /\ response'.body.user_created = u
                  /\ t \notin DOMAIN tokens
                  /\ DOMAIN tokens' = DOMAIN tokens \cup {t}
                  /\ \A x \in DOMAIN tokens : tokens'[x] = tokens[x]
                  /\ get_item_by_id(t, tokens').found
                  /\ get_item_by_id(t, tokens').item.user_id = u
                  /\ u \in DOMAIN users
                  /\ users' = users
      ]_vars

C2_Witness ==
    /\ response.op = "user_post"
    /\ response.status = HTTP_OK
    /\ response.body.token \in DOMAIN tokens
    /\ tokens[response.body.token].user_id = response.body.user_created
    /\ response.body.user_created \in DOMAIN users
    /\ Cardinality(DOMAIN users) = 2

\* C3: a PATCH or DELETE of an advertisement created by user B that presents
\* the token issued to another user A is answered 401 at the owner check and
\* leaves the advertisement as it is.
C3_ForeignTokenRefused ==
    [][\A p \in Procs :
        ( /\ pc[p] \in {"adv_patch_token", "adv_delete_token"}
          /\ pc'[p] # pc[p]
          /\ local[p].req.token \in DOMAIN tokenIssuedTo
          /\ local[p].req.adv_id \in DOMAIN advCreator
          /\ advCreator[local[p].req.adv_id] # None
          /\ tokenIssuedTo[local[p].req.token] # advCreator[local[p].req.adv_id] )
        => /\ response'.op \in {"adv_patch", "adv_delete"}
           /\ response'.status = HTTP_UNAUTHORIZED
           /\ pc'[p] = "idle"
           /\ advertisements' = advertisements
      ]_vars

\* C4: a POST /users/ whose email is the email of an existing user is
\* answered 400 and leaves the users and tokens tables as they were.
C4_DuplicateEmailRejected ==
    [][ /\ ( /\ AnsweredAtOnce
             /\ response'.op = "user_post"
             /\ "email" \in DOMAIN response'.req.body
             /\ \E u \in DOMAIN users : users[u].email = response'.req.body["email"] )
           => /\ response'.status = HTTP_BAD_REQUEST
              /\ users' = users
              /\ tokens' = tokens
        /\ \A p \in Procs :
             (pc[p] = "idle" /\ pc'[p] = "user_post_token")
             => ~\E u \in DOMAIN users :
                    users[u].email = local'[p].json_data["email"]
      ]_vars

C4_Witness ==
    /\ response.op = "user_post"
    /\ response.status = HTTP_BAD_REQUEST
    /\ validate(response.req.body, "CreateUser").ok
    /\ \E u \in DOMAIN users : users[u].email = response.req.body["email"]
    /\ Cardinality(DOMAIN users) = 1

\* C5: no two users rows have the same email, whatever the interleaving of
\* registrations.
C5_EmailUnique ==
    \A u1 \in DOMAIN users, u2 \in DOMAIN users :
        users[u1].email = users[u2].email => u1 = u2

\* a registration is answered 400 while another one with the same email,
\* whose users row is committed, is still in flight
C5_Witness ==
    /\ response.op = "user_post"
    /\ response.status = HTTP_BAD_REQUEST
    /\ response.body = Error("user is already exists")
    /\ \E p \in Procs :
         /\ pc[p] = "user_post_token"
         /\ local[p].json_data["email"] = response.req.body["email"]
         /\ local[p].new_user \in DOMAIN users

\* C6: a PATCH whose body has a user_id key is answered 400 in the step it
\* arrives with, before any lookup or write, whatever its token and adv_id.
C6_PatchUserIdRejected ==
    [][ /\ (response'.op = "adv_patch" /\ "user_id" \in DOMAIN response'.req.body)
           => /\ response'.status = HTTP_BAD_REQUEST
              /\ AnsweredAtOnce
              /\ store' = store
        /\ \A p \in Procs :
             InFlight(p, {"adv_patch_token", "adv_patch_commit"})
             => "user_id" \notin DOMAIN local'[p].req.body
      ]_vars

\* the owner's own token on an existing advertisement, refused
C6_Witness ==
    /\ response.op = "adv_patch"
    /\ response.status = HTTP_BAD_REQUEST
    /\ "user_id" \in DOMAIN response.req.body
    /\ response.req.adv_id \in DOMAIN advertisements
    /\ response.req.token \in DOMAIN tokens
    /\ tokens[response.req.token].user_id = advertisements[response.req.adv_id].user_id
    /\ tokens[response.req.token].user_id \in DOMAIN users
    /\ validate(response.req.body, "UpdateAdvertisement").ok

ShortAdvertisement(body) ==
    \/ "title" \in DOMAIN body /\ Len(body["title"]) < MinTitle
    \/ "description" \in DOMAIN body /\ Len(body["description"]) < MinDescription

\* C7: an advertisement create or update whose title is shorter than 8 or
\* whose description is shorter than 5 is answered 400 in the step it arrives
\* with, and no advertisements row is created or changed.
C7_ShortAdvertisementRejected ==
    [][ /\ ( /\ response'.op \in {"adv_post", "adv_patch"}
             /\ ShortAdvertisement(response'.req.body) )
           => /\ response'.status = HTTP_BAD_REQUEST
              /\ AnsweredAtOnce
              /\ advertisements' = advertisements
        /\ \A p \in Procs :
             InFlight(p, {"adv_post_commit", "adv_patch_token", "adv_patch_commit"})
             => ~ShortAdvertisement(local'[p].req.body)
      ]_vars

\* a short description alone, sent by the owner to an existing advertisement
C7_Witness ==
    /\ response.op = "adv_patch"
    /\ response.status = HTTP_BAD_REQUEST
    /\ DOMAIN response.req.body = {"description"}
    /\ ShortAdvertisement(response.req.body)
    /\ response.req.adv_id \in DOMAIN advertisements
    /\ response.req.token \in DOMAIN tokens
    /\ tokens[response.req.token].user_id = advertisements[response.req.adv_id].user_id

\* what a request refers to that the store does not hold (the payload being
\* valid)
RefersToNothing(r) ==
    CASE r.op \in {"user_get", "user_delete"} -> r.req.user_id \notin DOMAIN users
      [] r.op = "adv_get" -> r.req.adv_id \notin DOMAIN advertisements
      [] r.op = "adv_post" ->
            /\ validate(r.req.body, "CreateAdvertisement").ok
            /\ r.req.token \notin DOMAIN tokens
      [] r.op = "adv_patch" ->
            /\ ~ChangesOwner(r.req.body)
            /\ validate(r.req.body, "UpdateAdvertisement").ok
            /\ \/ r.req.adv_id \notin DOMAIN advertisements
               \/ r.req.token \notin DOMAIN tokens
      [] r.op = "adv_delete" ->
            \/ r.req.adv_id \notin DOMAIN advertisements
            \/ r.req.token \notin DOMAIN tokens
      [] OTHER -> FALSE

\* C8: a request that refers to a user id, an advertisement id or a token the
\* store does not hold (no usable token included) is answered 404.
C8_UnknownIsNotFound ==
    [][(Answered /\ RefersToNothing(response')) => response'.status = HTTP_NOT_FOUND]_vars

\* C9: round trip.  A successful POST /advertisements/ stores the title and
\* description of its body with the user_id of its token; the row stays as it
\* is in every step but a PATCH or DELETE of it and a DELETE of its owner; a
\* GET answers with the row's title, description and user_id.
C9_RoundTrip ==
    [][ /\ (response'.op = "adv_post" /\ response'.status = HTTP_OK) =>
              LET a == response'.body.id
                  r == response'.req
              IN  /\ a \notin DOMAIN advertisements
                  /\ a \in DOMAIN advertisements'
                  /\ advertisements'[a].title = r.body["title"]
                  /\ advertisements'[a].description = r.body["description"]
                  /\ advertisements'[a].user_id = tokens[r.token].user_id
        /\ \A a \in DOMAIN advertisements :
              (a \notin DOMAIN advertisements' \/ advertisements'[a] # advertisements[a])
              => /\ response'.status = HTTP_OK
                 /\ \/ response'.op \in {"adv_patch", "adv_delete"}
                          /\ response'.req.adv_id = a
                    \/ response'.op = "user_delete"
                          /\ response'.req.user_id = advertisements[a].user_id
        /\ (response'.op = "adv_get" /\ response'.req.adv_id \in DOMAIN advertisements) =>
              LET row == advertisements[response'.req.adv_id]
              IN  /\ response'.status = HTTP_OK
                  /\ response'.body.title = row.title
                  /\ response'.body.description = row.description
                  /\ response'.body.created_by = row.user_id
      ]_vars

\* a GET answers with what the advertisement was created with, after a user
\* other than its owner was deleted
C9_Witness ==
    /\ response.op = "adv_get"
    /\ response.status = HTTP_OK
    /\ response.body.title = "Long enough title"
    /\ response.body.description = "short"
    /\ response.body.created_by = advCreator[response.req.adv_id]
    /\ response.body.created_by \in DOMAIN users
    /\ Cardinality(DOMAIN users) = 1
    /\ nextUserId = 3

\* C10: delete then get.  A successful DELETE leaves no row with that id; an
\* id a sequence has handed out never comes back once its row is gone, new
\* rows taking the sequence's next value; a GET of an id without a row is
\* answered 404.
C10_DeleteThenGet ==
    [][ /\ (response'.op = "user_delete" /\ response'.status = HTTP_OK)
              => response'.req.user_id \notin DOMAIN users'
        /\ (response'.op = "adv_delete" /\ response'.status = HTTP_OK)
              => response'.req.adv_id \notin DOMAIN advertisements'
        /\ \A u \in DOMAIN users' \ DOMAIN users : u >= nextUserId /\ u < nextUserId'
        /\ \A a \in DOMAIN advertisements' \ DOMAIN advertisements :
              a >= nextAdvId /\ a < nextAdvId'
        /\ nextUserId' >= nextUserId /\ nextAdvId' >= nextAdvId
        /\ \A u \in DOMAIN users : u < nextUserId
        /\ \A a \in DOMAIN advertisements : a < nextAdvId
        /\ (response'.op = "user_get" /\ response'.req.user_id \notin DOMAIN users)
              => response'.status = HTTP_NOT_FOUND
        /\ (response'.op = "adv_get" /\ response'.req.adv_id \notin DOMAIN advertisements)
              => response'.status = HTTP_NOT_FOUND
      ]_vars

\* a GET of a deleted user is answered 404 after a later registration
C10_Witness ==
    /\ response.op = "user_get"
    /\ response.status = HTTP_NOT_FOUND
    /\ \E t \in DOMAIN tokenIssuedTo : tokenIssuedTo[t] = response.req.user_id
    /\ \E u \in DOMAIN users : u > response.req.user_id

\* C11: in every committed state of the store the user_id of every tokens
\* row is the id of a users row that exists; a DELETE of a user leaves no
\* token bound to no existing user.
C11_TokenUserExists ==
    \A t \in DOMAIN tokens : tokens[t].user_id \in DOMAIN users

\* C12: in every committed state of the store the user_id of every
\* advertisements row is the id of a users row that exists.
C12_AdvertisementUserExists ==
    \A a \in DOMAIN advertisements : advertisements[a].user_id \in DOMAIN users

\* the fields of an advertisement a PATCH may set
Mutable == {"title", "description"}

\* C13: partial update.  A successful PATCH leaves the row with the values of
\* its validated body in the fields the body has, and with the values the
\* row had in the fields the body does not have; user_id stays, and so does
\* every other row.
C13_PartialUpdate ==
    [][(response'.op = "adv_patch" /\ response'.status = HTTP_OK) =>
          LET a == response'.req.adv_id
              given == response'.req.body
          IN  /\ a \in DOMAIN advertisements
              /\ DOMAIN advertisements' = DOMAIN advertisements
              /\ \A f \in Mutable \cap DOMAIN given :
                    advertisements'[a][f] = given[f]
              /\ \A f \in Mutable \ DOMAIN given :
                    advertisements'[a][f] = advertisements[a][f]
              /\ advertisements'[a].user_id = advertisements[a].user_id
              /\ \A b \in DOMAIN advertisements \ {a} :
                    advertisements'[b] = advertisements[b]
      ]_vars

\* a PATCH of the description alone has left the title the advertisement was
\* created with
C13_Witness ==
    /\ response.op = "adv_patch"
    /\ response.status = HTTP_OK
    /\ DOMAIN response.req.body = {"description"}
    /\ advertisements[response.req.adv_id].description = response.req.body["description"]
    /\ advertisements[response.req.adv_id].description # "short"
    /\ advertisements[response.req.adv_id].title = "Long enough title"

\* C14: the user_id of an advertisement is immutable: no step changes the
\* user_id of a row that exists before and after it.
C14_AdvertisementOwnerImmutable ==
    [][\A a \in DOMAIN advertisements \cap DOMAIN advertisements' :
          advertisements'[a].user_id = advertisements[a].user_id]_vars

\* C15: the user of a token never changes: the user_id of every tokens row is
\* the user_id the row was created with.
C15_TokenUserNeverChanges ==
    \A t \in DOMAIN tokens : tokens[t].user_id = tokenIssuedTo[t]

\* C16: within a request the order is validate, authorize, persist.  A POST
\* of an advertisement with an invalid payload is answered 400 in the step it
\* arrives with, whatever its token; a PATCH or DELETE comes to its commit
\* only from its owner check, with a token the store holds whose user_id is
\* the advertisement's, and nothing is written up to there; a row is changed
\* or removed by a PATCH or DELETE only in its commit.
C16_ValidateAuthorizePersist ==
    [][ /\ ( /\ response'.op = "adv_post"
             /\ ~validate(response'.req.body, "CreateAdvertisement").ok )
           => /\ response'.status = HTTP_BAD_REQUEST
              /\ AnsweredAtOnce
              /\ store' = store
        /\ \A p \in Procs :
             /\ ( /\ InFlight(p, {"adv_patch_token", "adv_patch_commit",
                                  "adv_delete_token", "adv_delete_commit"})
                  /\ pc'[p] # pc[p] )
                => store' = store
             /\ ( /\ InFlight(p, {"adv_patch_commit", "adv_delete_commit"})
                  /\ pc'[p] # pc[p] )
                => /\ pc[p] \in {"adv_patch_token", "adv_delete_token"}
                   /\ local[p].req.token \in DOMAIN tokens
                   /\ tokens[local[p].req.token].user_id = local[p].adv.user_id
        /\ ( /\ response'.op \in {"adv_patch", "adv_delete"}
             /\ advertisements' # advertisements )
           => \E p \in Procs :
                 /\ pc[p] \in {"adv_patch_commit", "adv_delete_commit"}
                 /\ pc'[p] = "idle"
                 /\ local[p].req = response'.req
      ]_vars

\* an invalid payload is answered 400 with a token the store does not hold
C16_Witness ==
    /\ response.op = "adv_post"
    /\ response.status = HTTP_BAD_REQUEST
    /\ ~validate(response.req.body, "CreateAdvertisement").ok
    /\ response.req.token \in TokenIds
    /\ response.req.token \notin DOMAIN tokens
    /\ users # Empty

\* C17: a POST /advertisements/ whose token's user was deleted between the
\* token lookup and the commit is answered 400, and no advertisements row is
\* created.
C17_VanishedOwnerIsBadRequest ==
    [][\A p \in Procs :
        ( /\ pc[p] = "adv_post_commit"
          /\ pc'[p] = "idle"
          /\ local[p].new_advertisement.user_id # None
          /\ local[p].new_advertisement.user_id \notin DOMAIN users )
        => /\ response'.status = HTTP_BAD_REQUEST
           /\ advertisements' = advertisements
      ]_vars

\* C18: a request holds a session of its own from its entry to its end and
\* no longer: the session of a slot is open exactly while a request is in
\* flight in it, whichever way the request before it ended.
C18_SessionReleased ==
    \A p \in Procs : p \in sessions <=> pc[p] # "idle"

\* a commit has failed, and no session is left open
C18_Witness ==
    /\ response.op = "adv_patch"
    /\ response.status = HTTP_SERVER_ERROR
    /\ response.body = Unhandled("StaleDataError")
    /\ sessions = {}

\* C19: the token issued to a user that has been deleted authorizes nothing:
\* no commit of a POST, PATCH or DELETE of an advertisement that came with it
\* changes the advertisements.
C19_DeletedUserTokenIsDead ==
    [][\A p \in Procs :
        ( /\ pc[p] \in {"adv_post_commit", "adv_patch_commit", "adv_delete_commit"}
          /\ pc'[p] = "idle"
          /\ local[p].req.token \in DOMAIN tokenIssuedTo
          /\ tokenIssuedTo[local[p].req.token] \notin DOMAIN users )
        => advertisements' = advertisements
      ]_vars

\* C20: no lost update between concurrent partial updates.  The commit of a
\* successful PATCH writes the changed fields of its body and leaves every
\* other field with the value the row has at the commit, be it newer than the
\* one the request loaded.
C20_NoLostUpdate ==
    [][\A p \in Procs :
        ( /\ pc[p] = "adv_patch_commit"
          /\ pc'[p] = "idle"
          /\ response'.status = HTTP_OK
          /\ local[p].req.adv_id \in DOMAIN advertisements )
        => LET a == local[p].req.adv_id
               given == local[p].validated_data
           IN  /\ a \in DOMAIN advertisements'
               /\ \A f \in Changed(local[p].adv, given) :
                     advertisements'[a][f] = given[f]
               /\ \A f \in DOMAIN advertisements[a] \ DOMAIN given :
                     advertisements'[a][f] = advertisements[a][f]
      ]_vars

\* a PATCH of the title alone has committed while a PATCH of the description
\* alone, which loaded the row with the title before, is at its commit
C20_Witness ==
    /\ response.op = "adv_patch"
    /\ response.status = HTTP_OK
    /\ DOMAIN response.req.body = {"title"}
    /\ \E p \in Procs :
         /\ pc[p] = "adv_patch_commit"
         /\ local[p].req.adv_id = response.req.adv_id
         /\ DOMAIN local[p].validated_data = {"description"}
         /\ local[p].adv.title # response.req.body["title"]
         /\ local[p].adv.description # local[p].validated_data["description"]
         /\ advertisements[response.req.adv_id].title = response.req.body["title"]

====
